---- MODULE Spec2Model ----
(***************************************************************************)
(* Model of the recovery script of                                         *)
(* twctf18/revolutional-secure-angou/revolutional-secure-angou.ipynb:      *)
(* the k-search over the quadratic n*e - p*(k*p + 1), the factor step      *)
(* q = n / p, the private exponent d = inverse_mod(e, (p-1)*(q-1)), the    *)
(* decryption power_mod(ciphertext, d, n) and the final                    *)
(* long_to_bytes(plaintext)[-48:].                                         *)
(*                                                                         *)
(* Spec      : the code cell, one action per statement group.              *)
(* SliceSpec : the byte/integer codec and the trailing slice applied to    *)
(*             plaintexts laid out as padding bytes followed by a flag.    *)
(***************************************************************************)
EXTENDS Integers, Sequences, FiniteSets, TLC

VARIABLES n, e, ciphertext, k, r, p, q, d, plaintext, output, pc, err,
          tested, pad, flag

vars == <<n, e, ciphertext, k, r, p, q, d, plaintext, output, pc, err,
          tested, pad, flag>>

(***************************************************************************)
(* Bounds of the model.                                                    *)
(***************************************************************************)
\* arbitrary moduli 0..MaxN are fed to the script
MaxN == 32
\* primes up to MaxP are fed to the key generator
MaxP == 47
\* the loop of the script has no ceiling; the model stops it CapSlack
\* values of k after n*e
CapSlack == 6
\* a ceiling a bounded search would be configured with
SearchCeiling == 16
\* longest padding-plus-flag layout of SliceSpec
MaxBytes == 3

\* public exponents fed to the script (1 is a malformed exponent)
Exponents == {1, 3, 5, 7, 11}
\* byte values the layouts of SliceSpec are built from
ByteVals == {0, 1, 127}

(***************************************************************************)
(* Arithmetic provided by the libraries the script calls.                  *)
(***************************************************************************)
Abs(x) == IF x < 0 THEN -x ELSE x

RECURSIVE Gcd(_, _)
Gcd(a, b) == IF b = 0 THEN Abs(a) ELSE Gcd(Abs(b), Abs(a) % Abs(b))

IsPrime(x) == x > 1 /\ \A t \in 2..(x - 1) : x % t # 0

Divides(x, y) == x # 0 /\ y % Abs(x) = 0

\* marks "no inverse": every inverse is >= 0
NoInverse == -1

\* Integer.inverse_mod: zero for modulus 1, ZeroDivisionError when
\* mpz_invert reports gcd(a, m) # 1, else the inverse in 0..m-1; for
\* m = 0 mpz_invert answers from gcdext(a, 0), which is 1 exactly for a = 1
InverseMod(a, m) ==
    IF m = 1 THEN 0
    ELSE IF Gcd(a, m) # 1 THEN NoInverse
    ELSE IF m = 0 THEN 1
    ELSE CHOOSE x \in 0..(m - 1) : (a * x) % m = 1

\* power_mod(a, b, m), m >= 1, b >= 0
RECURSIVE PowMod(_, _, _)
PowMod(a, b, m) ==
    IF b = 0 THEN 1 % m
    ELSE LET h == PowMod(a, b \div 2, m)
             s == (h * h) % m
         IN IF b % 2 = 0 THEN s ELSE (s * (a % m)) % m

\* least s >= from with s*s >= x
RECURSIVE SqrtCeilFrom(_, _)
SqrtCeilFrom(x, from) == IF from * from >= x THEN from
                         ELSE SqrtCeilFrom(x, from + 1)

\* every integer root x of the quadratic has x*x <= |n*e| + |x|
RootBound(nn, ee) == SqrtCeilFrom(Abs(nn * ee), 0) + 1

(***************************************************************************)
(* The search.                                                             *)
(***************************************************************************)
\* k = 2
FirstK == 2

NextKSkipping(kk) == kk + 4
NextKEvery(kk) == kk + 1
\* k += 2
NextK(kk) == kk + 2

EqShifted(nn, ee, kk, x) == nn * ee - x * (kk * x + 2)
\* eq = n * e - p * (k * p + 1), evaluated at p = x
Eq(nn, ee, kk, x) == nn * ee - x * (kk * x + 1)

RootsAboveOne(nn, ee, kk) ==
    {x \in 2..RootBound(nn, ee) : Eq(nn, ee, kk, x) = 0}
\* the integer roots of eq
Roots(nn, ee, kk) ==
    {x \in (-RootBound(nn, ee))..RootBound(nn, ee) : Eq(nn, ee, kk, x) = 0}

RECURSIVE SortedSeq(_)
SortedSeq(S) == IF S = {} THEN <<>>
                ELSE LET lo == CHOOSE x \in S : \A y \in S : x <= y
                     IN <<lo>> \o SortedSeq(S \ {lo})

\* eq.roots(p, ring=ZZ): list of (root, multiplicity); the discriminant
\* 1 + 4*k*n*e is never 0, so every multiplicity is 1
RootList(nn, ee, kk) ==
    LET s == SortedSeq(Roots(nn, ee, kk))
    IN [i \in 1..Len(s) |-> <<s[i], 1>>]

\* where the model stops a search the script would continue
KCap(nn, ee) == Abs(nn * ee) + CapSlack

(***************************************************************************)
(* Rationals: n / p with a Sage Integer p is a Rational.                   *)
(***************************************************************************)
Rat(num, den) ==
    LET g == Gcd(num, den)
        s == IF den < 0 THEN -1 ELSE 1
    IN [num |-> (s * num) \div g, den |-> (s * den) \div g]

\* (p - 1) * (q - 1) for an Integer p and a Rational q
Modulus(pp, qq) == Rat((pp - 1) * (qq.num - qq.den), qq.den)

IsIntegralAlways(x) == TRUE
\* Integer(x) of a Rational x succeeds only for denominator 1
IsIntegral(x) == x.den = 1

IntegerPart(x) == x.num \div x.den

(***************************************************************************)
(* Byte / integer codec and the slice.                                     *)
(***************************************************************************)
RECURSIVE BytesToLong(_)
\* bytes_to_long: big-endian
BytesToLong(s) == IF s = <<>> THEN 0
                  ELSE BytesToLong(SubSeq(s, 1, Len(s) - 1)) * 256 + s[Len(s)]

RECURSIVE BigEndianDigits(_)
BigEndianDigits(x) == IF x = 0 THEN <<>>
                      ELSE Append(BigEndianDigits(x \div 256), x % 256)

\* long_to_bytes: minimal big-endian string, one zero byte for 0
LongToBytes(x) == IF x = 0 THEN <<0>> ELSE BigEndianDigits(x)

LeadingSlice(s, len) == SubSeq(s, 1, IF len > Len(s) THEN Len(s) ELSE len)
\* s[-len:]; s[-0:] is the whole string
TrailingSlice(s, len) ==
    IF len = 0 \/ len >= Len(s) THEN s
    ELSE SubSeq(s, Len(s) - len + 1, Len(s))

\* the 48 of [-48:]
FlagSliceLen == 48

(***************************************************************************)
(* Inputs.                                                                 *)
(***************************************************************************)
\* generator.rb: q = e^-1 mod p, kept only if q is prime; n = p * q
GeneratedBy(nn, ee, pp) ==
    /\ IsPrime(pp)
    /\ ee % pp # 0
    /\ LET qq == InverseMod(ee % pp, pp)
       IN IsPrime(qq) /\ nn = pp * qq

GeneratedKeys ==
    {key \in (1..(MaxP * MaxP)) \X Exponents :
        \E pp \in 2..MaxP : /\ key[1] % pp = 0
                            /\ GeneratedBy(key[1], key[2], pp)}

ArbitraryKeys == (0..MaxN) \X Exponents

Unset == 0
NoRational == [num |-> 0, den |-> 1]

Init ==
    /\ \E key \in GeneratedKeys \cup ArbitraryKeys :
          /\ n = key[1]
          /\ e = key[2]
    /\ ciphertext \in 0..(n + 1)
    /\ k = FirstK
    /\ r = <<>>
    /\ p = Unset
    /\ q = NoRational
    /\ d = Unset
    /\ plaintext = Unset
    /\ output = <<>>
    /\ pc = "search"
    /\ err = "none"
    /\ tested = <<>>
    /\ pad = <<>>
    /\ flag = <<>>

(***************************************************************************)
(* The code cell.                                                          *)
(***************************************************************************)
\* while not r: eq = ...; r = eq.roots(p, ring=ZZ); k += 2
SearchStep ==
    /\ pc = "search"
    /\ r = <<>>
    /\ k <= KCap(n, e)
    /\ r' = RootList(n, e, k)
    /\ tested' = Append(tested, k)
    /\ k' = NextK(k)
    /\ pc' = IF r' = <<>> THEN "search" ELSE "factor"
    /\ UNCHANGED <<n, e, ciphertext, p, q, d, plaintext, output, err, pad,
                   flag>>

\* p = r[0][0]; q = n / p
Factor ==
    /\ pc = "factor"
    /\ p' = r[1][1]
    /\ IF p' = 0
         THEN /\ pc' = "error"
              /\ err' = "ZeroDivision"
              /\ q' = q
         ELSE /\ pc' = "inverse"
              /\ err' = err
              /\ q' = Rat(n, p')
    /\ UNCHANGED <<n, e, ciphertext, k, r, d, plaintext, output, tested,
                   pad, flag>>

\* d = inverse_mod(e, (p-1) * (q-1))
Inverse ==
    /\ pc = "inverse"
    /\ LET m == Modulus(p, q)
       IN IF ~IsIntegral(m)
            THEN /\ pc' = "error"
                 /\ err' = "InvalidFactor"
                 /\ d' = d
            ELSE IF InverseMod(e, IntegerPart(m)) = NoInverse
                   THEN /\ pc' = "error"
                        /\ err' = "NoInverse"
                        /\ d' = d
                   ELSE /\ pc' = "decrypt"
                        /\ err' = err
                        /\ d' = InverseMod(e, IntegerPart(m))
    /\ UNCHANGED <<n, e, ciphertext, k, r, p, q, plaintext, output, tested,
                   pad, flag>>

\* plaintext = power_mod(ciphertext, d, n)
Decrypt ==
    /\ pc = "decrypt"
    /\ plaintext' = PowMod(ciphertext, d, n)
    /\ pc' = "print"
    /\ UNCHANGED <<n, e, ciphertext, k, r, p, q, d, output, err, tested,
                   pad, flag>>

\* print long_to_bytes(plaintext)[-48:]
PrintFlag ==
    /\ pc = "print"
    /\ output' = Append(output,
                        TrailingSlice(LongToBytes(plaintext), FlagSliceLen))
    /\ pc' = "done"
    /\ UNCHANGED <<n, e, ciphertext, k, r, p, q, d, plaintext, err, tested,
                   pad, flag>>

Next == SearchStep \/ Factor \/ Inverse \/ Decrypt \/ PrintFlag

Spec == Init /\ [][Next]_vars

(***************************************************************************)
(* The codec and the slice on padded plaintexts.                           *)
(***************************************************************************)
ByteStrings(minLen, maxLen) ==
    UNION {[1..len -> ByteVals] : len \in minLen..maxLen}

\* N >= 0 padding bytes followed by a flag of at least one byte
InitSlice ==
    /\ pad \in ByteStrings(0, MaxBytes - 1)
    /\ flag \in ByteStrings(1, MaxBytes - Len(pad))
    /\ n = Unset
    /\ e = Unset
    /\ ciphertext = Unset
    /\ k = FirstK
    /\ r = <<>>
    /\ p = Unset
    /\ q = NoRational
    /\ d = Unset
    /\ plaintext = Unset
    /\ output = <<>>
    /\ pc = "layout"
    /\ err = "none"
    /\ tested = <<>>

\* the decrypted integer of a plaintext laid out as pad followed by flag
DecodeLayout ==
    /\ pc = "layout"
    /\ plaintext' = BytesToLong(pad \o flag)
    /\ pc' = "extract"
    /\ UNCHANGED <<n, e, ciphertext, k, r, p, q, d, output, err, tested,
                   pad, flag>>

\* long_to_bytes(plaintext)[-len(flag):]
ExtractFlag ==
    /\ pc = "extract"
    /\ output' = Append(output,
                        TrailingSlice(LongToBytes(plaintext), Len(flag)))
    /\ pc' = "extracted"
    /\ UNCHANGED <<n, e, ciphertext, k, r, p, q, d, plaintext, err, tested,
                   pad, flag>>

NextSlice == DecodeLayout \/ ExtractFlag

SliceSpec == InitSlice /\ [][NextSlice]_vars

(***************************************************************************)
(* Vocabulary of the properties.                                           *)
(***************************************************************************)
SearchStopped == r # <<>>
\* the k at which the last test was made
LastK == tested[Len(tested)]
\* the root the search hands on
FoundRoot == r[1][1]
Terminal == pc \in {"done", "error"}
PastInverse == pc \in {"decrypt", "print", "done"}
OddKey == n % 2 = 1 /\ e % 2 = 1 /\ n * e >= 3

\* n, e is a key of the generator for some prime p
Generated == \E pp \in 2..n : n % pp = 0 /\ GeneratedBy(n, e, pp)
\* ... for an odd prime p and an odd prime e
GeneratedOddPE ==
    /\ IsPrime(e)
    /\ e % 2 = 1
    /\ \E pp \in 3..n : n % pp = 0 /\ GeneratedBy(n, e, pp)
\* ... with q odd as well
GeneratedOddPQE ==
    /\ n % 2 = 1
    /\ GeneratedOddPE
\* the key meets the PublicKey invariant: e coprime to (p-1)(q-1)
ValidGenerated ==
    \E pp \in 2..n : /\ n % pp = 0
                     /\ GeneratedBy(n, e, pp)
                     /\ Gcd(e, (pp - 1) * ((n \div pp) - 1)) = 1
Malformed == n <= 0 \/ e <= 1 \/ ciphertext >= n

(***************************************************************************)
(* C1  Round trip: for a key built by the generator (p prime,              *)
(* q = e^-1 mod p prime, n = p*q, e coprime to (p-1)(q-1) as the PublicKey *)
(* invariant requires) and a ciphertext m^e mod n with 0 <= m < n, the     *)
(* script ends by recovering exactly m.                                    *)
(***************************************************************************)
C1_RoundTrip ==
    (Terminal /\ ValidGenerated /\ ciphertext < n)
        => /\ pc = "done"
           /\ \A m \in 0..(n - 1) :
                 PowMod(m, e, n) = ciphertext => plaintext = m

(***************************************************************************)
(* C2  Whenever the k-search stops with a root, the p it hands on is a     *)
(* positive integer, divides n exactly and satisfies n*e = p*(k*p+1) for   *)
(* the k at which it was found.                                            *)
(***************************************************************************)
C2_FoundPValid ==
    SearchStopped
        => /\ FoundRoot > 0
           /\ Divides(FoundRoot, n)
           /\ n * e = FoundRoot * (LastK * FoundRoot + 1)

(***************************************************************************)
(* C3  The k-search is bounded: it performs at most the configured ceiling *)
(* of iterations, and a search in which no tested k gave a valid root (a   *)
(* positive divisor of n) ends in SearchExhausted.                         *)
(***************************************************************************)
ValidRootTested ==
    \E i \in 1..Len(tested) :
        \E x \in Roots(n, e, tested[i]) : x > 0 /\ Divides(x, n)

C3_BoundedSearch ==
    /\ Len(tested) <= SearchCeiling
    /\ (pc # "search" /\ ~ValidRootTested)
          => (pc = "error" /\ err = "SearchExhausted")

(***************************************************************************)
(* C4  The k tested are exactly 2, 4, 6, ... in increasing order, no odd k *)
(* is tested, the search stops at the first k with a root, and the p used  *)
(* afterwards is the root found at that smallest successful k.             *)
(***************************************************************************)
C4_EvenAscendingFirstRoot ==
    /\ \A i \in 1..Len(tested) : tested[i] = 2 * i
    /\ k = 2 * Len(tested) + 2
    /\ (pc = "search")
          => /\ ~SearchStopped
             /\ tested # <<>> => Roots(n, e, LastK) = {}
    /\ (pc = "factor")
          => \A i \in 1..(Len(tested) - 1) : Roots(n, e, tested[i]) = {}
    /\ SearchStopped
          => /\ Roots(n, e, LastK) # {}
             /\ FoundRoot \in Roots(n, e, LastK)
    /\ (pc \in {"inverse", "decrypt", "print", "done"}) => p = FoundRoot

C4_Witness ==
    /\ pc = "done"
    /\ Len(tested) >= 2
    /\ p = FoundRoot

(***************************************************************************)
(* C6  After a root p is found: if p does not divide n the run ends in the *)
(* InvalidFactor error, if e is not coprime to (p-1)(q-1) it ends in the   *)
(* NoInverse error; an error is terminal and nothing is decrypted or       *)
(* printed in either case.                                                 *)
(***************************************************************************)
RootNotFactor == SearchStopped /\ FoundRoot # 0 /\ ~Divides(FoundRoot, n)
RootNotCoprime ==
    /\ SearchStopped
    /\ Divides(FoundRoot, n)
    /\ Gcd(e, (FoundRoot - 1) * (Rat(n, FoundRoot).num - 1)) # 1

C6_ErrorsTerminalNoOutput ==
    /\ RootNotFactor
          => /\ ~PastInverse
             /\ output = <<>>
             /\ plaintext = Unset
             /\ Terminal => (pc = "error" /\ err = "InvalidFactor")
    /\ RootNotCoprime
          => /\ ~PastInverse
             /\ output = <<>>
             /\ plaintext = Unset
             /\ Terminal => (pc = "error" /\ err = "NoInverse")
    /\ (pc = "error") => (output = <<>> /\ ~ENABLED Next)

C6_Witness ==
    /\ pc = "error"
    /\ err = "InvalidFactor"
    /\ RootNotFactor

C6_WitnessNoInverse ==
    /\ pc = "error"
    /\ err = "NoInverse"
    /\ RootNotCoprime

(***************************************************************************)
(* C7  Malformed input (n <= 0, e <= 1 or ciphertext >= n) is rejected     *)
(* before any search or decryption step: no k is tested and no plaintext   *)
(* is produced.                                                            *)
(***************************************************************************)
C7_MalformedRejected ==
    Malformed => /\ tested = <<>>
                 /\ pc \notin {"decrypt", "print", "done"}
                 /\ output = <<>>

(***************************************************************************)
(* C8  For odd n and odd e no odd k >= 1 gives the quadratic an integer    *)
(* root, so the scan over 2, 4, 6, ... stops at the same k with the same   *)
(* root as a scan over 1, 2, 3, ...                                        *)
(***************************************************************************)
\* the first k of the scan 1, 2, 3, ..., limit that has a root
FullScanK(limit) ==
    CHOOSE j \in 1..limit :
        /\ Roots(n, e, j) # {}
        /\ \A i \in 1..(j - 1) : Roots(n, e, i) = {}

C8_OddKNeverRoots ==
    OddKey => /\ Roots(n, e, k - 1) = {}
              /\ (pc = "factor")
                    => /\ FullScanK(LastK) = LastK
                       /\ r = RootList(n, e, FullScanK(LastK))

C8_Witness ==
    /\ OddKey
    /\ pc = "factor"
    /\ LastK >= 4

(***************************************************************************)
(* C9  For a key of the generator with odd primes p and e (q prime), the   *)
(* loop exits at a successful k <= e - 1.                                  *)
(***************************************************************************)
ExitsByEMinusOne ==
    /\ (pc = "search") => k <= e - 1
    /\ SearchStopped => LastK <= e - 1

C9_Original == GeneratedOddPE => ExitsByEMinusOne

\* C9 as amended: for a key of the generator with odd primes p, q and e,
\* the loop exits at a successful k <= e - 1.
C9_ExitByEMinusOne == GeneratedOddPQE => ExitsByEMinusOne

C9_Witness ==
    /\ GeneratedOddPQE
    /\ SearchStopped
    /\ LastK = e - 1

(***************************************************************************)
(* C10  For odd n and odd e with n*e >= 3 the loop as written exits, at    *)
(* the latest at k = n*e - 1, where p = 1 is a root.                       *)
(***************************************************************************)
C10_ExitsByNEMinusOne ==
    OddKey => /\ (pc = "search") => k <= n * e - 1
              /\ SearchStopped => LastK <= n * e - 1
              /\ (SearchStopped /\ LastK = n * e - 1) => FoundRoot = 1

C10_Witness ==
    /\ OddKey
    /\ n * e > 3
    /\ SearchStopped
    /\ LastK = n * e - 1
    /\ FoundRoot = 1

(***************************************************************************)
(* C5  Slice extraction: for a plaintext laid out as N padding bytes       *)
(* followed by the flag bytes, the trailing len(flag) bytes of the minimal *)
(* big-endian string of the plaintext integer are the flag bytes.          *)
(***************************************************************************)
C5_Original == (pc = "extracted") => output = <<flag>>

SomeNonZero(s) == \E i \in 1..Len(s) : s[i] # 0

\* C5 as amended: ... are the flag bytes exactly when a byte of the padding
\* or the first byte of the flag is nonzero, or the flag is the single
\* byte 0.
C5_SliceIsFlag ==
    (pc = "extracted")
        => ((output = <<flag>>)
               <=> (SomeNonZero(pad) \/ flag[1] # 0 \/ flag = <<0>>))

C5_Witness ==
    /\ pc = "extracted"
    /\ Len(pad) >= 1
    /\ Len(flag) >= 2
    /\ SomeNonZero(pad)
    /\ flag[1] = 0
    /\ output = <<flag>>

====
